---- MODULE Spec2Model ----
(***************************************************************************)
(* Model of the Postgis package recipe                                     *)
(* (var/spack/repos/builtin/packages/postgis/package.py):                  *)
(*   - the postgresql() context manager and the two hooks that use it,     *)
(*     check() and test_lib_version()            (specification Spec);     *)
(*   - the patch() hook                          (specification SpecPatch);*)
(*   - configure_args()                          (specification SpecConf). *)
(*                                                                         *)
(* External commands (pg_ctl, psql, make, mkdtemp, rmtree) either succeed  *)
(* or fail; an Executable call that fails raises (fail_on_error is left at *)
(* its default).  A failed "pg_ctl stop" may leave the server running.     *)
(***************************************************************************)
EXTENDS Integers, Sequences, FiniteSets, TLC

VARIABLES
    pc,           \* position of the single thread of control
    hook,         \* which hook is running: "none", "check", "test_lib_version"
    sid,          \* number of postgresql() sessions entered so far
    live,         \* sessions entered and not yet left
    pg_ctl,       \* result of which(pg_ctl): "exe", "None" or "unset"
    data_dir,     \* name bound by "with TemporaryDirectory() as data_dir"
    dirs,         \* dirs[n] = session owning existing directory n, 0 if absent
    servers,      \* sessions whose server process is running
    stopFailed,   \* sessions whose "pg_ctl stop" reported a failure
    yielded,      \* the psql callable has been yielded to the with-body
    host,         \* local variable of check()
    version,      \* local variable of test_lib_version()
    exc,          \* exception in flight ("none" if none)
    raised,       \* first exception raised by the with-body ("none" if none)
    outcome,      \* what the last hook delivered to its invoker
    trace,        \* external operations of the current session, in order
    pkg_version,  \* self.spec.version
    proj_version, \* self.spec["proj"].version
    configure,    \* words of the configure script
    configure0,   \* the configure script before patch()
    gui,          \* "+gui" in self.spec
    prefix,       \* prefix[d] = install prefix of dependency d
    args,         \* value returned by configure_args()
    ppc           \* position in patch() / configure_args()

vars == << pc, hook, sid, live, pg_ctl, data_dir, dirs, servers, stopFailed,
           yielded, host, version, exc, raised, outcome, trace,
           pkg_version, proj_version, configure, configure0, gui, prefix,
           args, ppc >>

sessionVars == << pc, hook, sid, live, pg_ctl, data_dir, dirs, servers,
                  stopFailed, yielded, host, version, exc, raised, outcome,
                  trace >>

buildVars == << pkg_version, proj_version, configure, configure0, gui,
                prefix, args, ppc >>

(***************************************************************************)
(* Bounds                                                                  *)
(***************************************************************************)
MaxSessions == 2       \* number of postgresql() sessions explored
NumDirNames == 2       \* names mkdtemp can choose from
MaxVerComponent == 5   \* version components range over 0..MaxVerComponent
MaxWords == 2          \* length of the modelled configure script
NumPrefixes == 2       \* install prefixes a dependency can have

NoDir == 0
DirNames == 1..NumDirNames
Sessions == 1..MaxSessions

(***************************************************************************)
(* The trace of a session                                                  *)
(***************************************************************************)
Ev(op, ok) == [op |-> op, ok |-> ok]

Has(op) == \E i \in DOMAIN trace : trace[i].op = op

Ok(op) == \E i \in DOMAIN trace : trace[i].op = op /\ trace[i].ok

Failed(op) == \E i \in DOMAIN trace : trace[i].op = op /\ ~trace[i].ok

Count(op) == Cardinality({i \in DOMAIN trace : trace[i].op = op})

(***************************************************************************)
(* Where control goes when an exception is raised at a given place of      *)
(* postgresql(): out of the function before the with statement is entered, *)
(* to TemporaryDirectory.__exit__ from inside the with statement, to the   *)
(* finally clause from inside the try statement.                           *)
(***************************************************************************)
Unwind_no_finally(at) ==
    CASE at = "mkdtemp" -> "return"
      [] at = "init"    -> "rmtree"
      [] at = "start"   -> "rmtree"
      [] at = "body"    -> "rmtree"
      [] at = "stop"    -> "rmtree"
      [] at = "rmtree"  -> "return"

Unwind_start_in_try(at) ==
    CASE at = "mkdtemp" -> "return"
      [] at = "init"    -> "rmtree"
      [] at = "start"   -> "stop"
      [] at = "body"    -> "stop"
      [] at = "stop"    -> "rmtree"
      [] at = "rmtree"  -> "return"

Unwind_stop_outside_with(at) ==
    CASE at = "mkdtemp" -> "return"
      [] at = "init"    -> "rmtree"
      [] at = "start"   -> "rmtree"
      [] at = "body"    -> "stop"
      [] at = "stop"    -> "return"
      [] at = "rmtree"  -> "return"

Unwind_start_continues(at) ==
    CASE at = "mkdtemp" -> "return"
      [] at = "init"    -> "rmtree"
      [] at = "start"   -> "yield"
      [] at = "body"    -> "stop"
      [] at = "stop"    -> "rmtree"
      [] at = "rmtree"  -> "return"

Unwind_stop_retried(at) ==
    CASE at = "mkdtemp" -> "return"
      [] at = "init"    -> "rmtree"
      [] at = "start"   -> "rmtree"
      [] at = "body"    -> "stop"
      [] at = "stop"    -> "stop"
      [] at = "rmtree"  -> "return"

Unwind_no_with(at) ==
    CASE at = "mkdtemp" -> "return"
      [] at = "init"    -> "return"
      [] at = "start"   -> "return"
      [] at = "body"    -> "stop"
      [] at = "stop"    -> "return"
      [] at = "rmtree"  -> "return"

Unwind(at) ==
    CASE at = "mkdtemp" -> "return"
      [] at = "init"    -> "rmtree"
      [] at = "start"   -> "rmtree"
      [] at = "body"    -> "stop"
      [] at = "stop"    -> "rmtree"
      [] at = "rmtree"  -> "return"

(***************************************************************************)
(* tempfile.mkdtemp creates a directory under a name that does not exist.  *)
(***************************************************************************)
mkdtemp_any_name(d) == DirNames

mkdtemp(d) == {n \in DirNames : d[n] = 0}

(***************************************************************************)
(* check_outputs(expected, actual): expected must occur in actual.         *)
(***************************************************************************)
Outputs == {<< >>, <<"v">>, <<"POSTGIS", "v">>, <<"x">>}

check_outputs(expected, actual) == \E i \in DOMAIN actual : actual[i] = expected

(***************************************************************************)
(* Hooks                                                                   *)
(***************************************************************************)
EnterHook(h) ==
    /\ pc = "idle"
    /\ sid < MaxSessions
    /\ hook' = h
    /\ pc' = "postgresql"
    /\ exc' = "none"
    /\ raised' = "none"
    /\ outcome' = "none"
    /\ trace' = << >>
    /\ yielded' = FALSE
    /\ data_dir' = NoDir
    /\ pg_ctl' = "unset"
    /\ host' = << >>
    /\ version' = << >>
    /\ UNCHANGED << sid, live, dirs, servers, stopFailed >>
    /\ UNCHANGED buildVars

check == EnterHook("check")

test_lib_version == EnterHook("test_lib_version")

\* lines 107-108: the generator starts running at __enter__
postgresql ==
    /\ pc = "postgresql"
    /\ sid' = sid + 1
    /\ live' = live \cup {sid + 1}
    /\ \E w \in {"exe", "None"} : pg_ctl' = w
    /\ pc' = "mkdtemp"
    /\ UNCHANGED << hook, data_dir, dirs, servers, stopFailed, yielded, host,
                    version, exc, raised, outcome, trace >>
    /\ UNCHANGED buildVars

\* line 109, entering: tempfile.TemporaryDirectory()
TemporaryDirectory_enter ==
    /\ pc = "mkdtemp"
    /\ \/ \E n \in mkdtemp(dirs) :
             /\ data_dir' = n
             /\ dirs' = [dirs EXCEPT ![n] = sid]
             /\ trace' = Append(trace, Ev("mkdtemp", TRUE))
             /\ pc' = "init"
             /\ exc' = exc
       \/ /\ trace' = Append(trace, Ev("mkdtemp", FALSE))
          /\ exc' = "mkdtemp"
          /\ pc' = Unwind("mkdtemp")
          /\ UNCHANGED << data_dir, dirs >>
    /\ UNCHANGED << hook, sid, live, pg_ctl, servers, stopFailed, yielded,
                    host, version, raised, outcome >>
    /\ UNCHANGED buildVars

\* line 110: pg_ctl("init", "-D", data_dir, "-o", "-A trust")
pg_ctl_init ==
    /\ pc = "init"
    /\ \/ /\ pg_ctl = "None"
          /\ exc' = "TypeError"
          /\ pc' = Unwind("init")
          /\ trace' = trace
       \/ /\ pg_ctl = "exe"
          /\ \/ /\ trace' = Append(trace, Ev("init", TRUE))
                /\ pc' = "start"
                /\ exc' = exc
             \/ /\ trace' = Append(trace, Ev("init", FALSE))
                /\ exc' = "init"
                /\ pc' = Unwind("init")
    /\ UNCHANGED << hook, sid, live, pg_ctl, data_dir, dirs, servers,
                    stopFailed, yielded, host, version, raised, outcome >>
    /\ UNCHANGED buildVars

\* line 111: pg_ctl("start", "-D", data_dir, "-o", ...)
pg_ctl_start ==
    /\ pc = "start"
    /\ \/ /\ trace' = Append(trace, Ev("start", TRUE))
          /\ servers' = servers \cup {sid}
          /\ pc' = "yield"
          /\ exc' = exc
       \/ /\ trace' = Append(trace, Ev("start", FALSE))
          /\ servers' = servers
          /\ exc' = "start"
          /\ pc' = Unwind("start")
    /\ UNCHANGED << hook, sid, live, pg_ctl, data_dir, dirs, stopFailed,
                    yielded, host, version, raised, outcome >>
    /\ UNCHANGED buildVars

\* lines 113-114: psql = which(...); yield functools.partial(psql, ...)
\* functools.partial raises TypeError when which() returned None
yield ==
    /\ pc = "yield"
    /\ \/ /\ yielded' = TRUE
          /\ pc' = IF hook = "check" THEN "check_89" ELSE "test_101"
          /\ exc' = exc
       \/ /\ yielded' = FALSE
          /\ exc' = "TypeError"
          /\ pc' = Unwind("body")
    /\ UNCHANGED << hook, sid, live, pg_ctl, data_dir, dirs, servers,
                    stopFailed, host, version, raised, outcome, trace >>
    /\ UNCHANGED buildVars

\* The with-body raises e: the exception is thrown into the generator at
\* the yield
Throw(e) ==
    /\ exc' = e
    /\ raised' = e
    /\ pc' = Unwind("body")

\* line 89: host = psql("-c", r"\echo :HOST", "-t", "postgres", output=str)
check_query_host ==
    /\ pc = "check_89"
    /\ \/ /\ trace' = Append(trace, Ev("query", TRUE))
          /\ host' = <<data_dir>>
          /\ pc' = "check_90"
          /\ UNCHANGED << exc, raised >>
       \/ /\ trace' = Append(trace, Ev("query", FALSE))
          /\ host' = host
          /\ Throw("query")
    /\ UNCHANGED << hook, sid, live, pg_ctl, data_dir, dirs, servers,
                    stopFailed, yielded, version, outcome >>
    /\ UNCHANGED buildVars

\* line 90: make("check", f"PGHOST={host.strip()}")
check_make ==
    /\ pc = "check_90"
    /\ \/ /\ trace' = Append(trace, Ev("make", TRUE))
          /\ pc' = "stop"
          /\ UNCHANGED << exc, raised >>
       \/ /\ trace' = Append(trace, Ev("make", FALSE))
          /\ Throw("make")
    /\ UNCHANGED << hook, sid, live, pg_ctl, data_dir, dirs, servers,
                    stopFailed, yielded, host, version, outcome >>
    /\ UNCHANGED buildVars

\* line 101: psql("-c", "CREATE EXTENSION postgis", "postgres")
test_create_extension ==
    /\ pc = "test_101"
    /\ \/ /\ trace' = Append(trace, Ev("query", TRUE))
          /\ pc' = "test_102"
          /\ UNCHANGED << exc, raised >>
       \/ /\ trace' = Append(trace, Ev("query", FALSE))
          /\ Throw("query")
    /\ UNCHANGED << hook, sid, live, pg_ctl, data_dir, dirs, servers,
                    stopFailed, yielded, host, version, outcome >>
    /\ UNCHANGED buildVars

\* line 102: version = psql("-c", "SELECT PostGIS_Lib_Version()", ...)
test_select_version ==
    /\ pc = "test_102"
    /\ \/ /\ trace' = Append(trace, Ev("query", TRUE))
          /\ \E o \in Outputs : version' = o
          /\ pc' = "test_103"
          /\ UNCHANGED << exc, raised >>
       \/ /\ trace' = Append(trace, Ev("query", FALSE))
          /\ version' = version
          /\ Throw("query")
    /\ UNCHANGED << hook, sid, live, pg_ctl, data_dir, dirs, servers,
                    stopFailed, yielded, host, outcome >>
    /\ UNCHANGED buildVars

\* line 103: check_outputs(str(self.spec.version), version)
test_check_outputs ==
    /\ pc = "test_103"
    /\ IF check_outputs("v", version)
         THEN /\ pc' = "stop"
              /\ UNCHANGED << exc, raised >>
         ELSE Throw("assert")
    /\ UNCHANGED << hook, sid, live, pg_ctl, data_dir, dirs, servers,
                    stopFailed, yielded, host, version, outcome, trace >>
    /\ UNCHANGED buildVars

\* line 116, the finally clause: pg_ctl("stop", "-D", data_dir)
\* A failed stop raises and replaces the exception in flight.
pg_ctl_stop ==
    /\ pc = "stop"
    /\ \/ /\ trace' = Append(trace, Ev("stop", TRUE))
          /\ servers' = servers \ {sid}
          /\ stopFailed' = stopFailed
          /\ exc' = exc
          /\ pc' = "rmtree"
       \/ /\ trace' = Append(trace, Ev("stop", FALSE))
          /\ \E still \in BOOLEAN :
                servers' = IF still THEN servers ELSE servers \ {sid}
          /\ stopFailed' = stopFailed \cup {sid}
          /\ exc' = "stop"
          /\ pc' = Unwind("stop")
    /\ UNCHANGED << hook, sid, live, pg_ctl, data_dir, dirs, yielded, host,
                    version, raised, outcome >>
    /\ UNCHANGED buildVars

\* line 109, leaving: TemporaryDirectory.__exit__ removes the directory.
\* A failed removal raises and replaces the exception in flight.
TemporaryDirectory_exit ==
    /\ pc = "rmtree"
    /\ \/ /\ trace' = Append(trace, Ev("rmtree", TRUE))
          /\ dirs' = [dirs EXCEPT ![data_dir] = 0]
          /\ exc' = exc
          /\ pc' = "return"
       \/ /\ trace' = Append(trace, Ev("rmtree", FALSE))
          /\ dirs' = dirs
          /\ exc' = "rmtree"
          /\ pc' = Unwind("rmtree")
    /\ UNCHANGED << hook, sid, live, pg_ctl, data_dir, servers, stopFailed,
                    yielded, host, version, raised, outcome >>
    /\ UNCHANGED buildVars

\* The hook returns to (or raises into) its invoker.
hook_return ==
    /\ pc = "return"
    /\ outcome' = IF exc = "none" THEN "ok" ELSE exc
    /\ live' = live \ {sid}
    /\ pc' = "idle"
    /\ UNCHANGED << hook, sid, pg_ctl, data_dir, dirs, servers, stopFailed,
                    yielded, host, version, exc, raised, trace >>
    /\ UNCHANGED buildVars

BuildInit ==
    /\ pkg_version = <<3, 1, 2>>
    /\ proj_version = <<8, 0>>
    /\ configure = << >>
    /\ configure0 = << >>
    /\ gui = FALSE
    /\ prefix = << >>
    /\ args = << >>
    /\ ppc = "none"

SessionInit ==
    /\ pc = "idle"
    /\ hook = "none"
    /\ sid = 0
    /\ live = {}
    /\ pg_ctl = "unset"
    /\ data_dir = NoDir
    /\ dirs = [n \in DirNames |-> 0]
    /\ servers = {}
    /\ stopFailed = {}
    /\ yielded = FALSE
    /\ host = << >>
    /\ version = << >>
    /\ exc = "none"
    /\ raised = "none"
    /\ outcome = "none"
    /\ trace = << >>

Init == SessionInit /\ BuildInit

Next ==
    \/ check
    \/ test_lib_version
    \/ postgresql
    \/ TemporaryDirectory_enter
    \/ pg_ctl_init
    \/ pg_ctl_start
    \/ yield
    \/ check_query_host
    \/ check_make
    \/ test_create_extension
    \/ test_select_version
    \/ test_check_outputs
    \/ pg_ctl_stop
    \/ TemporaryDirectory_exit
    \/ hook_return

Spec == Init /\ [][Next]_vars

(***************************************************************************)
(* patch()                                                                 *)
(***************************************************************************)
RECURSIVE VersionLE(_, _)
\* a <= b in the component-wise order of versions
VersionLE(a, b) ==
    IF a = << >> THEN TRUE
    ELSE IF b = << >> THEN FALSE
    ELSE IF a[1] < b[1] THEN TRUE
    ELSE IF a[1] > b[1] THEN FALSE
    ELSE VersionLE(Tail(a), Tail(b))

\* "@:hi"
InRangeUpTo(v, hi) == VersionLE(v, hi)

\* "@lo:"
InRangeFrom(v, lo) == VersionLE(lo, v)

satisfies_either(v, p) ==
    InRangeUpTo(v, <<3, 1, 1>>) \/ InRangeFrom(p, <<8>>)

\* line 62: self.spec.satisfies("@:3.1.1 ^proj@8:")
satisfies(v, p) ==
    InRangeUpTo(v, <<3, 1, 1>>) /\ InRangeFrom(p, <<8>>)

\* line 63: filter_file(r"\bpj_get_release\b", "proj_info", "configure").
\* The script is a sequence of words; \b makes the pattern match whole
\* words only.
filter_file(text) ==
    [i \in DOMAIN text |->
        IF text[i] = "pj_get_release" THEN "proj_info" ELSE text[i]]

Words == {"pj_get_release", "pj_get_release_x", "AC_CHECK_LIB"}

RECURSIVE SeqsUpTo(_, _)
SeqsUpTo(S, n) ==
    IF n = 0 THEN {<< >>}
    ELSE LET shorter == SeqsUpTo(S, n - 1)
         IN  shorter \cup {Append(t, w) : t \in shorter, w \in S}

PkgVersions ==
    {<<a, b, c>> : a \in 0..MaxVerComponent, b \in 0..MaxVerComponent,
                   c \in 0..MaxVerComponent}

ProjVersions == {<<a, b>> : a \in 7..9, b \in 0..1}

patch ==
    /\ ppc = "patch"
    /\ configure' = IF satisfies(pkg_version, proj_version)
                      THEN filter_file(configure)
                      ELSE configure
    /\ ppc' = "patched"
    /\ UNCHANGED << pkg_version, proj_version, configure0, gui, prefix, args >>
    /\ UNCHANGED sessionVars

PatchInit ==
    /\ SessionInit
    /\ pkg_version \in PkgVersions
    /\ proj_version \in ProjVersions
    /\ configure \in SeqsUpTo(Words, MaxWords)
    /\ configure0 = configure
    /\ gui = FALSE
    /\ prefix = << >>
    /\ args = << >>
    /\ ppc = "patch"

SpecPatch == PatchInit /\ [][patch]_vars

(***************************************************************************)
(* configure_args()                                                        *)
(***************************************************************************)
Deps == {"postgresql", "sfcgal", "libxml2", "geos", "proj", "json-c",
         "protobuf-c", "pcre", "gdal"}

PrefixNames == <<"/opt/a", "/opt/b", "/opt/c", "/opt/d">>

Prefixes == {<<PrefixNames[i]>> : i \in 1..NumPrefixes}

\* prefix.bin
bin(p) == Append(p, "bin")

\* path.join(name)
join(p, name) == Append(p, name)

args_gui_always(pre, g) ==
    << <<"--with-pgconfig=">> \o join(bin(pre["postgresql"]), "pg_config"),
       <<"--with-sfcgal=">> \o join(bin(pre["sfcgal"]), "sfcgal-config"),
       <<"--with-xml2config=">> \o join(bin(pre["libxml2"]), "xml2-config"),
       <<"--with-geosconfig=">> \o join(bin(pre["geos"]), "geos-config"),
       <<"--with-projdir=">> \o pre["proj"],
       <<"--with-jsondir=">> \o pre["json-c"],
       <<"--with-protobufdir=">> \o pre["protobuf-c"],
       <<"--with-pcredir=">> \o pre["pcre"],
       <<"--with-gdalconfig=">> \o join(bin(pre["gdal"]), "gdal-config"),
       <<"--with-gui">> >>

\* lines 72-85
args_of(pre, g) ==
    LET base ==
        << <<"--with-pgconfig=">> \o join(bin(pre["postgresql"]), "pg_config"),
           <<"--with-sfcgal=">> \o join(bin(pre["sfcgal"]), "sfcgal-config"),
           <<"--with-xml2config=">> \o join(bin(pre["libxml2"]), "xml2-config"),
           <<"--with-geosconfig=">> \o join(bin(pre["geos"]), "geos-config"),
           <<"--with-projdir=">> \o pre["proj"],
           <<"--with-jsondir=">> \o pre["json-c"],
           <<"--with-protobufdir=">> \o pre["protobuf-c"],
           <<"--with-pcredir=">> \o pre["pcre"],
           <<"--with-gdalconfig=">> \o join(bin(pre["gdal"]), "gdal-config") >>
    IN  IF g THEN Append(base, <<"--with-gui">>) ELSE base

configure_args ==
    /\ ppc = "configure_args"
    /\ args' = args_of(prefix, gui)
    /\ ppc' = "configured"
    /\ UNCHANGED << pkg_version, proj_version, configure, configure0, gui,
                    prefix >>
    /\ UNCHANGED sessionVars

ConfInit ==
    /\ SessionInit
    /\ pkg_version = <<3, 1, 2>>
    /\ proj_version = <<8, 0>>
    /\ configure = << >>
    /\ configure0 = << >>
    /\ gui \in BOOLEAN
    /\ prefix \in [Deps -> Prefixes]
    /\ args = << >>
    /\ ppc = "configure_args"

SpecConf == ConfInit /\ [][configure_args]_vars

(***************************************************************************)
(* Properties of the postgresql() sessions (specification Spec)            *)
(***************************************************************************)
\* The hook of session sid has handed control back to its invoker.
Returned == pc = "idle" /\ sid > 0

InBody == pc \in {"check_89", "check_90", "test_101", "test_102", "test_103"}

Index(op) == CHOOSE i \in DOMAIN trace : trace[i].op = op

\* C1, as stated: for every session whose init and start succeeded, once
\* the scope has been left the server is stopped and the directory no
\* longer exists.
C1_Original ==
    (Returned /\ Ok("start")) => (sid \notin servers /\ dirs[data_dir] = 0)

\* C1, amended: for every session whose init and start succeeded, once the
\* scope has been left pg_ctl stop has been invoked exactly once and the
\* removal of the directory has been attempted exactly once; the server is
\* stopped if the stop succeeded and the directory no longer exists if the
\* removal succeeded.
C1_Released ==
    (Returned /\ Ok("start")) =>
        /\ Count("stop") = 1
        /\ Count("rmtree") = 1
        /\ Ok("stop") => sid \notin servers
        /\ Ok("rmtree") => dirs[data_dir] = 0

C1_Witness ==
    /\ Returned
    /\ Ok("start")
    /\ raised = "query"
    /\ Ok("stop")
    /\ Ok("rmtree")
    /\ sid \notin servers
    /\ dirs[data_dir] = 0

\* C2: when the with-body raised and the cleanup (pg_ctl stop or the
\* removal of the directory) failed too, the error delivered to the invoker
\* is the body's error, and both cleanup steps were attempted.
C2_OriginalErrorSurvives ==
    (Returned /\ raised # "none" /\ (Failed("stop") \/ Failed("rmtree"))) =>
        /\ outcome = raised
        /\ Has("stop")
        /\ Has("rmtree")

\* C3: if pg_ctl init or pg_ctl start fails, nothing is yielded, the
\* with-body never runs, no query is issued, and the invoker gets an error.
C3_NoPartialSession ==
    (Failed("init") \/ Failed("start")) =>
        /\ ~yielded
        /\ ~InBody
        /\ ~Has("query")
        /\ ~Has("make")
        /\ Returned => outcome \notin {"ok", "none"}

C3_Witness ==
    /\ Returned
    /\ Ok("init")
    /\ Failed("start")
    /\ outcome = "start"
    /\ ~yielded

\* C4: every failure ends the operation with an error for the invoker and
\* nothing is retried: init, start and stop run at most once per session,
\* after a failed step only the cleanup steps that the failure has not yet
\* passed follow, and an acquired session is released exactly once, stop
\* first and removal second.
C4_FatalNoRetry ==
    /\ Count("init") <= 1
    /\ Count("start") <= 1
    /\ Count("stop") <= 1
    /\ \A i \in DOMAIN trace : \A j \in DOMAIN trace :
          (~trace[i].ok /\ i < j) =>
              CASE trace[i].op \in {"init", "start", "stop"} ->
                      trace[j].op = "rmtree"
                [] trace[i].op \in {"query", "make"} ->
                      trace[j].op \in {"stop", "rmtree"}
                [] OTHER -> FALSE
    /\ Returned =>
          /\ (\E i \in DOMAIN trace : ~trace[i].ok) =>
                outcome \notin {"ok", "none"}
          /\ Ok("start") =>
                /\ Count("stop") = 1
                /\ Count("rmtree") = 1
                /\ Index("stop") < Index("rmtree")

C4_Witness ==
    /\ Returned
    /\ Failed("query")
    /\ Failed("stop")
    /\ Has("rmtree")
    /\ outcome = "stop"

\* C5: in every run in which the temporary directory was created, its
\* removal has been attempted by the time control is back at the invoker.
C5_RemovalAttempted ==
    (Returned /\ Ok("mkdtemp")) => Has("rmtree")

C5_Witness ==
    /\ Returned
    /\ Ok("mkdtemp")
    /\ Failed("stop")
    /\ Has("rmtree")

Rank(op) ==
    CASE op = "mkdtemp" -> 1
      [] op = "init"    -> 2
      [] op = "start"   -> 3
      [] op = "query"   -> 4
      [] op = "make"    -> 4
      [] op = "stop"    -> 5
      [] op = "rmtree"  -> 6

\* C8: the events of a session occur in the order create, init, start,
\* queries and make check, stop, remove; queries and make check are issued
\* after a successful start and before any stop; stop is issued only after
\* a successful start.
C8_Order ==
    /\ \A i \in DOMAIN trace : \A j \in DOMAIN trace :
          i < j =>
              /\ Rank(trace[i].op) <= Rank(trace[j].op)
              /\ Rank(trace[i].op) = Rank(trace[j].op) =>
                    Rank(trace[i].op) = 4
    /\ \A i \in DOMAIN trace :
          trace[i].op \in {"query", "make", "stop"} =>
              \E j \in DOMAIN trace :
                  j < i /\ trace[j].op = "start" /\ trace[j].ok
    /\ \A i \in DOMAIN trace :
          trace[i].op \in {"query", "make"} =>
              \A j \in DOMAIN trace : trace[j].op = "stop" => i < j
    /\ InBody => (sid \in servers /\ ~Has("stop"))

C8_Witness ==
    /\ Returned
    /\ hook = "check"
    /\ Ok("query")
    /\ Ok("make")
    /\ Has("stop")
    /\ Has("rmtree")

\* C9: at most one session is live at any time; the directory a session
\* acquires did not exist before the session created it; and the with-body
\* of a session runs against the server that this session started.
C9_AtMostOneLive == Cardinality(live) <= 1

C9_OwnServer == InBody => (Ok("start") /\ sid \in servers /\ dirs[data_dir] = sid)

C9_FreshDirectory ==
    (pc = "mkdtemp" /\ pc' = "init") =>
        (dirs[data_dir'] = 0 /\ dirs'[data_dir'] = sid)

C9_Fresh ==
    /\ [](C9_AtMostOneLive /\ C9_OwnServer)
    /\ [][C9_FreshDirectory]_vars

C9_Witness ==
    /\ sid = 2
    /\ InBody
    /\ \E n \in DirNames : dirs[n] = 1 /\ n # data_dir
    /\ 1 \in servers

\* C10, as stated: whenever a server instance is running, its directory
\* exists.
C10_Original ==
    \A s \in servers : \E n \in DirNames : dirs[n] = s

\* C10, amended: whenever a server instance is running and pg_ctl stop has
\* not reported a failure for it, its directory exists; the directory of a
\* started server is removed only after pg_ctl stop has been invoked.
C10_DirOutlivesServer ==
    /\ \A s \in servers \ stopFailed : \E n \in DirNames : dirs[n] = s
    /\ (Ok("start") /\ Has("rmtree")) =>
          (Has("stop") /\ Index("stop") < Index("rmtree"))

C10_Witness ==
    /\ Returned
    /\ Ok("start")
    /\ Ok("stop")
    /\ Ok("rmtree")
    /\ raised = "none"
    /\ sid \notin servers

(***************************************************************************)
(* Property of patch() (specification SpecPatch)                           *)
(***************************************************************************)
\* C6: patch() rewrites pj_get_release to proj_info in the configure script
\* if and only if the package version is <= 3.1.1 and the proj version is
\* >= 8; otherwise the script is unchanged.
C6_PatchRule ==
    ppc = "patched" =>
        LET v == pkg_version
            old ==
                \/ v[1] < 3
                \/ v[1] = 3 /\ v[2] < 1
                \/ v[1] = 3 /\ v[2] = 1 /\ v[3] <= 1
            fires == old /\ proj_version[1] >= 8
        IN  /\ Len(configure) = Len(configure0)
            /\ \A i \in DOMAIN configure0 :
                  configure[i] =
                      IF fires /\ configure0[i] = "pj_get_release"
                        THEN "proj_info"
                        ELSE configure0[i]

C6_Witness ==
    /\ ppc = "patched"
    /\ pkg_version = <<3, 1, 1>>
    /\ proj_version = <<8, 0>>
    /\ configure0 = <<"pj_get_release", "pj_get_release_x">>
    /\ configure = <<"proj_info", "pj_get_release_x">>

(***************************************************************************)
(* Property of configure_args() (specification SpecConf)                   *)
(***************************************************************************)
BaseFlags ==
    << <<"--with-pgconfig=", "postgresql">>,
       <<"--with-sfcgal=", "sfcgal">>,
       <<"--with-xml2config=", "libxml2">>,
       <<"--with-geosconfig=", "geos">>,
       <<"--with-projdir=", "proj">>,
       <<"--with-jsondir=", "json-c">>,
       <<"--with-protobufdir=", "protobuf-c">>,
       <<"--with-pcredir=", "pcre">>,
       <<"--with-gdalconfig=", "gdal">> >>

\* C7: configure_args() returns the 9 base flags in the fixed order, each
\* pointing into the prefix of its dependency, followed by --with-gui as
\* the tenth element if and only if the gui variant is enabled.
C7_Flags ==
    ppc = "configured" =>
        /\ Len(args) = IF gui THEN 10 ELSE 9
        /\ \A i \in 1..9 :
              /\ args[i][1] = BaseFlags[i][1]
              /\ args[i][2] = prefix[BaseFlags[i][2]][1]
        /\ gui => args[10] = <<"--with-gui">>

C7_Witness ==
    /\ ppc = "configured"
    /\ gui
    /\ Len(args) = 10
    /\ args[10] = <<"--with-gui">>

====
